---- MODULE Spec2Model ----
(***************************************************************************)
(* Groq Chat Assistant (src/main.py): a Streamlit script that is re-run    *)
(* top to bottom on every user interaction.  One action of this module is  *)
(* one interaction together with the script run(s) it triggers.            *)
(*                                                                         *)
(* A text is a sequence of tokens (literal chunks of characters); the      *)
(* string it stands for is the concatenation of its tokens.  The tokens    *)
(* "{history}" and "{input}" are the placeholders of a prompt template.    *)
(***************************************************************************)
EXTENDS Integers, Sequences, FiniteSets, TLC

\* ---------------------------------------------------------------- bounds
\* Longest transcript explored (the program itself has no limit).
MaxTurns == 3

\* ------------------------------------------------------ program constants
\* st.slider('Conversation Memory (messages)', 1, 30, 10)
MinMemory == 1
MaxMemory == 30
DefaultMemory == 10

\* Options of the model selectbox.
Models == <<"deepseek-r1-distill-llama-70b", "meta-llama/llama-guard-4-12b">>

\* Options of the persona selectbox.
Personas == {"Default", "Expert", "Creative"}

\* Values session_state.selected_persona is given when get_custom_prompt is
\* exercised beyond the selectbox's options.
PersonaInputs == Personas \cup {"Pirate"}

\* start_time = None
None == "None"

\* Values of datetime.now().
Times == {"t1", "t2"}

\* Contents of the text area: empty, a plain message, and a message that
\* looks like a template placeholder.
Inputs == {<<>>, <<"Hi">>, <<"{input}">>}

\* Texts the inference endpoint returns, and messages of the exceptions
\* the call raises.
Replies == {<<"Hello">>}
Errors == {<<"rate limit exceeded">>}

\* The templates of get_custom_prompt, one per persona, as tokens.
personas ==
  [ Default |->
      << "You are a helpful AI assistant.",
         "\n                     Current conversation:",
         "\n                     ", "{history}",
         "\n                     ", "Human: ", "{input}",
         "\n                     ", "AI:" >>,
    Expert |->
      << "You are an expert consultant with deep knowledge across multiple fields.",
         "\n                    Please provide detailed, technical responses when appropriate.",
         "\n                    Current conversation:",
         "\n                    ", "{history}",
         "\n                    ", "Human: ", "{input}",
         "\n                    ", "Expert:" >>,
    Creative |->
      << "You are a creative and imaginative AI that thinks outside the box.",
         "\n                      Feel free to use metaphors and analogies in your responses.",
         "\n                      Current conversation:",
         "\n                      ", "{history}",
         "\n                      ", "Human: ", "{input}",
         "\n                      ", "Creative AI:" >> ]

VARIABLES
  \* st.session_state
  chat_history,      \* sequence of [human, AI]
  total_messages,
  start_time,
  selected_persona,
  \* widget values, kept by the front end across runs
  model,
  memory_length,
  user_question,
  \* what the last interaction did
  trigger,           \* what caused it: "load" (first run), the widget "model",
                     \* "memory", "persona", "text", or the button "clear",
                     \* "new_topic", "send"
  memory,            \* the ConversationBufferWindowMemory of the last run
  displayed,         \* the turns rendered as chat bubbles by the last run
  status,            \* the st.success / st.error / exception box shown
  loaded,            \* the messages the chain loaded from memory for its prompt
  request,           \* the requests made to the inference endpoint
  response           \* what the endpoint answered

vars == << chat_history, total_messages, start_time, selected_persona,
           model, memory_length, user_question,
           trigger, memory, displayed, status, loaded, request, response >>

session == << chat_history, total_messages, start_time >>
widgets == << model, memory_length, user_question, selected_persona >>

\* ---------------------------------------------------------------- helpers
Min(a, b) == IF a < b THEN a ELSE b
Max(a, b) == IF a > b THEN a ELSE b

NoStatus == [kind |-> "none", text |-> <<>>]
NoResponse == [kind |-> "none", text |-> <<>>]

\* ------------------------------------------- ConversationBufferWindowMemory
\* memory = ConversationBufferWindowMemory(k=memory_length)
ConversationBufferWindowMemory(k) == [k |-> k, messages |-> <<>>]

\* memory.save_context({'input': i}, {'output': o}): two messages appended.
save_context(mem, i, o) ==
  [mem EXCEPT !.messages = @ \o << [type |-> "Human", content |-> i],
                                   [type |-> "AI", content |-> o] >>]

\* Faulty variant of buffer: keeps the oldest 2k messages instead of the newest.
buffer_oldest(mem) ==
  IF mem.k > 0
    THEN SubSeq(mem.messages, 1, Min(Len(mem.messages), 2 * mem.k))
    ELSE <<>>

\* memory.buffer: the last 2k messages, i.e. the last k exchanges.
buffer(mem) ==
  IF mem.k > 0
    THEN SubSeq(mem.messages,
                Max(1, Len(mem.messages) - 2 * mem.k + 1),
                Len(mem.messages))
    ELSE <<>>

\* memory.clear()
clear(mem) == [mem EXCEPT !.messages = <<>>]

\* get_buffer_string: "<type>: <content>" per message, joined by newlines.
RECURSIVE get_buffer_string(_)
get_buffer_string(msgs) ==
  IF msgs = <<>> THEN <<>>
  ELSE LET line == << msgs[1].type \o ": " >> \o msgs[1].content
       IN IF Len(msgs) = 1 THEN line
          ELSE line \o << "\n" >> \o get_buffer_string(Tail(msgs))

\* Faulty variant of LoadHistory: the memory evicts while loading, so that it
\* holds the newest exchange only and a larger k finds nothing more to show.
RECURSIVE LoadHistory_newest(_, _)
LoadHistory_newest(mem, hist) ==
  IF hist = <<>> THEN mem
  ELSE LoadHistory_newest(save_context(clear(mem), hist[1].human, hist[1].AI),
                          Tail(hist))

\* for message in st.session_state.chat_history: memory.save_context(...)
RECURSIVE LoadHistory(_, _)
LoadHistory(mem, hist) ==
  IF hist = <<>> THEN mem
  ELSE LoadHistory(save_context(mem, hist[1].human, hist[1].AI), Tail(hist))

\* ---------------------------------------------------------- prompt assembly
\* Faulty variant of get_custom_prompt: personas.get(persona, personas['Default']),
\* an unknown persona silently falls back to the Default template.
get_custom_prompt_fallback(persona) ==
  IF persona \in DOMAIN personas
    THEN [ok |-> TRUE, template |-> personas[persona], error |-> <<>>]
    ELSE [ok |-> TRUE, template |-> personas["Default"], error |-> <<>>]

\* get_custom_prompt(): the template of the persona, or the KeyError of the
\* dictionary lookup personas[persona].
get_custom_prompt(persona) ==
  IF persona \in DOMAIN personas
    THEN [ok |-> TRUE, template |-> personas[persona], error |-> <<>>]
    ELSE [ok |-> FALSE, template |-> <<>>, error |-> << "KeyError" >>]

\* str.replace of one placeholder by a text, over the whole text.
RECURSIVE Replace(_, _, _)
Replace(text, placeholder, by) ==
  IF text = <<>> THEN <<>>
  ELSE (IF Head(text) = placeholder THEN by ELSE << Head(text) >>)
       \o Replace(Tail(text), placeholder, by)

\* Faulty variant of format: template.replace("{history}", history)
\* .replace("{input}", input), which scans the inserted history again.
format_replace(template, history, input) ==
  Replace(Replace(template, "{history}", history), "{input}", input)

\* PromptTemplate.format(history=..., input=...): one pass over the template;
\* the substituted texts are inserted verbatim and not scanned again.
RECURSIVE format(_, _, _)
format(template, history, input) ==
  IF template = <<>> THEN <<>>
  ELSE LET t == Head(template)
           piece == IF t = "{history}" THEN history
                    ELSE IF t = "{input}" THEN input
                    ELSE << t >>
       IN piece \o format(Tail(template), history, input)

\* Faulty variant of Requests: the request is sent a second time (a retry).
Requests_retry(m, template, win, input) ==
  LET r == [model |-> m,
            prompt |-> format(template, get_buffer_string(win), input)]
  IN << r, r >>

\* The requests conversation(user_question) makes: the prompt is built from
\* the memory's window and the input, and sent once with the selected model.
Requests(m, template, win, input) ==
  << [model |-> m,
      prompt |-> format(template, get_buffer_string(win), input)] >>

\* st.error(f"Error: {str(e)}") (the leading warning sign is left out)
ErrorBox(e) == [kind |-> "error", text |-> << "Error: " >> \o e]

\* st.success("Memory cleared for new topic!")
SuccessBox == [kind |-> "success", text |-> << "Memory cleared for new topic!" >>]

\* The uncaught exception of a run Streamlit shows in place of the page.
ExceptionBox(e) == [kind |-> "exception", text |-> e]

\* ------------------------------------------------------------------- runs
\* A run that raises at line 131: the memory was constructed (line 129) but
\* never loaded, nothing below is rendered and no chain exists.
Aborted(k, e) ==
  /\ memory' = ConversationBufferWindowMemory(k)
  /\ displayed' = <<>>
  /\ status' = ExceptionBox(e)
  /\ loaded' = <<>>
  /\ request' = <<>>
  /\ response' = NoResponse

\* A run of lines 125-177 in which no button below the text area does anything:
\* the chain is built, the history loaded into memory and displayed.
Idle(k, persona, hist) ==
  LET p == get_custom_prompt(persona) IN
  IF p.ok
    THEN /\ memory' = LoadHistory(ConversationBufferWindowMemory(k), hist)
         /\ displayed' = hist
         /\ status' = NoStatus
         /\ loaded' = <<>>
         /\ request' = <<>>
         /\ response' = NoResponse
    ELSE Aborted(k, p.error)

\* initialize_session_state() and the first run of the script.
Init ==
  /\ chat_history = <<>>
  /\ total_messages = 0
  /\ start_time = None
  /\ selected_persona = "Default"
  /\ model = Models[1]
  /\ memory_length = DefaultMemory
  /\ user_question = <<>>
  /\ trigger = "load"
  /\ memory = ConversationBufferWindowMemory(DefaultMemory)
  /\ displayed = <<>>
  /\ status = NoStatus
  /\ loaded = <<>>
  /\ request = <<>>
  /\ response = NoResponse

\* The model selectbox is changed (or the script simply re-runs).
ChangeModel(m) ==
  /\ model' = m
  /\ trigger' = "model"
  /\ Idle(memory_length, selected_persona, chat_history)
  /\ UNCHANGED << session, memory_length, user_question, selected_persona >>

\* The memory slider is moved.
ChangeMemory(k) ==
  /\ memory_length' = k
  /\ trigger' = "memory"
  /\ Idle(k, selected_persona, chat_history)
  /\ UNCHANGED << session, model, user_question, selected_persona >>

\* The persona selectbox is changed.
ChangePersona(p) ==
  /\ selected_persona' = p
  /\ trigger' = "persona"
  /\ Idle(memory_length, p, chat_history)
  /\ UNCHANGED << session, model, memory_length, user_question >>

\* The text area is edited.
EditMessage(q) ==
  /\ user_question' = q
  /\ trigger' = "text"
  /\ Idle(memory_length, selected_persona, chat_history)
  /\ UNCHANGED << session, model, memory_length, selected_persona >>

\* "Clear Chat History": the session is reset and st.rerun() runs the script
\* again with no button pressed.
ClearChatHistory ==
  /\ chat_history' = <<>>
  /\ start_time' = None
  /\ trigger' = "clear"
  /\ Idle(memory_length, selected_persona, <<>>)
  /\ UNCHANGED << total_messages, widgets >>

\* Faulty variant of NewTopic: the transcript is emptied along with the memory.
NewTopic_forget ==
  /\ get_custom_prompt(selected_persona).ok
  /\ trigger' = "new_topic"
  /\ memory' = ConversationBufferWindowMemory(memory_length)
  /\ chat_history' = <<>>
  /\ displayed' = <<>>
  /\ status' = SuccessBox
  /\ loaded' = <<>>
  /\ request' = <<>>
  /\ response' = NoResponse
  /\ UNCHANGED << total_messages, start_time, widgets >>

\* "New Topic": memory.clear() on the memory of this run, after the history
\* was loaded and displayed.
NewTopic ==
  /\ get_custom_prompt(selected_persona).ok
  /\ trigger' = "new_topic"
  /\ memory' = clear(LoadHistory(ConversationBufferWindowMemory(memory_length),
                                 chat_history))
  /\ displayed' = chat_history
  /\ status' = SuccessBox
  /\ loaded' = <<>>
  /\ request' = <<>>
  /\ response' = NoResponse
  /\ UNCHANGED << session, widgets >>

\* "Send" with an empty text area: `send_button and user_question` is false.
SendEmpty ==
  /\ user_question = <<>>
  /\ trigger' = "send"
  /\ Idle(memory_length, selected_persona, chat_history)
  /\ UNCHANGED << session, widgets >>

\* Faulty variant of StartTime: the start time is never set.
StartTime_unset(now) == start_time

\* if not st.session_state.start_time: st.session_state.start_time = now
StartTime(now) == IF start_time = None THEN now ELSE start_time

\* Faulty variant of AppendTurn: the transcript is cut to the memory window.
AppendTurn_evict(hist, message) ==
  LET all == Append(hist, message)
  IN SubSeq(all, Max(1, Len(all) - memory_length + 1), Len(all))

\* st.session_state.chat_history.append(message)
AppendTurn(hist, message) == Append(hist, message)

\* "Send" and the inference call returns `reply`: the turn is appended and
\* st.rerun() runs the script again on the new history.
SendOk(reply, now) ==
  LET p == get_custom_prompt(selected_persona)
      mem == LoadHistory(ConversationBufferWindowMemory(memory_length), chat_history)
      message == [human |-> user_question, AI |-> reply]
  IN /\ user_question # <<>>
     /\ p.ok
     /\ Len(chat_history) < MaxTurns
     /\ trigger' = "send"
     /\ start_time' = StartTime(now)
     /\ loaded' = buffer(mem)
     /\ request' = Requests(model, p.template, buffer(mem), user_question)
     /\ response' = [kind |-> "text", text |-> reply]
     /\ chat_history' = AppendTurn(chat_history, message)
     /\ memory' = LoadHistory(ConversationBufferWindowMemory(memory_length),
                              chat_history')
     /\ displayed' = chat_history'
     /\ status' = NoStatus
     /\ UNCHANGED << total_messages, widgets >>

\* Faulty variant of SendFail: the turn is recorded before the call, without
\* its answer, and stays in the transcript when the call raises.
SendFail_partial(e, now) ==
  LET p == get_custom_prompt(selected_persona)
      mem == LoadHistory(ConversationBufferWindowMemory(memory_length), chat_history)
  IN /\ user_question # <<>>
     /\ p.ok
     /\ Len(chat_history) < MaxTurns
     /\ trigger' = "send"
     /\ start_time' = (IF start_time = None THEN now ELSE start_time)
     /\ loaded' = buffer(mem)
     /\ request' = Requests(model, p.template, buffer(mem), user_question)
     /\ response' = [kind |-> "error", text |-> e]
     /\ chat_history' = Append(chat_history, [human |-> user_question, AI |-> <<>>])
     /\ memory' = mem
     /\ displayed' = chat_history
     /\ status' = ErrorBox(e)
     /\ UNCHANGED << total_messages, widgets >>

\* "Send" and the inference call raises `e`: caught, shown with st.error.
SendFail(e, now) ==
  LET p == get_custom_prompt(selected_persona)
      mem == LoadHistory(ConversationBufferWindowMemory(memory_length), chat_history)
  IN /\ user_question # <<>>
     /\ p.ok
     /\ trigger' = "send"
     /\ start_time' = StartTime(now)
     /\ loaded' = buffer(mem)
     /\ request' = Requests(model, p.template, buffer(mem), user_question)
     /\ response' = [kind |-> "error", text |-> e]
     /\ chat_history' = chat_history
     /\ memory' = mem
     /\ displayed' = chat_history
     /\ status' = ErrorBox(e)
     /\ UNCHANGED << total_messages, widgets >>

\* A button below the text area is pressed while get_custom_prompt raises:
\* the run stops at line 131, before the buttons are reached.
PressAborted(b) ==
  LET p == get_custom_prompt(selected_persona)
  IN /\ ~p.ok
     /\ b = "send" => user_question # <<>>
     /\ trigger' = b
     /\ Aborted(memory_length, p.error)
     /\ UNCHANGED << session, widgets >>

Next ==
  \/ \E m \in {Models[i] : i \in DOMAIN Models} : ChangeModel(m)
  \/ \E k \in MinMemory..MaxMemory : ChangeMemory(k)
  \/ \E p \in Personas : ChangePersona(p)
  \/ \E q \in Inputs : EditMessage(q)
  \/ ClearChatHistory
  \/ NewTopic
  \/ SendEmpty
  \/ \E r \in Replies, now \in Times : SendOk(r, now)
  \/ \E e \in Errors, now \in Times : SendFail(e, now)

Spec == Init /\ [][Next]_vars

\* The same program with session_state.selected_persona taking values outside
\* the selectbox's options, to exercise get_custom_prompt on them.
NextPersona ==
  \/ Next
  \/ \E p \in PersonaInputs \ Personas : ChangePersona(p)
  \/ \E b \in {"send", "new_topic"} : PressAborted(b)

SpecPersona == Init /\ [][NextPersona]_vars

\* ================================================================ properties
\* The last n turns of a transcript, oldest first.
LastTurns(hist, n) == [i \in 1..n |-> hist[Len(hist) - n + i]]

\* The messages of a sequence of turns: human, AI, human, AI, ...
TurnMessages(turns) ==
  [i \in 1..(2 * Len(turns)) |->
     IF i % 2 = 1 THEN [type |-> "Human", content |-> turns[(i + 1) \div 2].human]
                  ELSE [type |-> "AI", content |-> turns[i \div 2].AI]]

\* The window a memory of size k holds once the transcript is loaded into it.
WindowOf(k, hist) == buffer(LoadHistory(ConversationBufferWindowMemory(k), hist))

IsPrefix(s, t) == Len(s) <= Len(t) /\ SubSeq(t, 1, Len(s)) = s

\* `part` occurs in `text` as a run of consecutive tokens.
Contains(text, part) ==
  \E i \in 0..(Len(text) - Len(part)) : SubSeq(text, i + 1, i + Len(part)) = part

\* Number of placeholder tokens in a text.
Placeholders(text) ==
  Cardinality({i \in DOMAIN text : text[i] \in {"{history}", "{input}"}})

\* The role marker each persona's prompt ends with.
RoleMarker == [Default |-> "AI:", Expert |-> "Expert:", Creative |-> "Creative AI:"]

\* A Send with non-empty text was the last interaction.
Submitted == trigger = "send" /\ user_question # <<>>

\* C1: the memory window used to build the prompt of a Send holds exactly
\* min(N, K) turns, the last min(N, K) turns of the transcript as it was when
\* the Send was submitted, oldest first.
C1_WindowIsLastTurns ==
  [][ (trigger' = "send" /\ request' # <<>>) =>
        LET n == Min(Len(chat_history), memory_length)
        IN /\ memory_length \in MinMemory..MaxMemory
           /\ Len(loaded') = 2 * n
           /\ loaded' = TurnMessages(LastTurns(chat_history, n)) ]_vars

\* C1 witness: a Send on a transcript of 3 turns with K = 2 loaded 2 turns.
C1_Witness ==
  /\ Submitted /\ response.kind = "error"
  /\ Len(chat_history) = 3 /\ memory_length = 2
  /\ Len(loaded) = 4
  /\ chat_history[2].human # chat_history[3].human

\* C2: a Send whose inference call raises leaves the transcript exactly as it
\* was, shows the error message, and a further Send can succeed afterwards.
C2_FailedCallKeepsTranscript ==
  /\ [][ response'.kind = "error" =>
           /\ chat_history' = chat_history
           /\ displayed' = chat_history
           /\ status'.kind = "error"
           /\ status'.text = << "Error: " >> \o response'.text ]_vars
  /\ []( (response.kind = "error" /\ Len(chat_history) < MaxTurns) =>
           ENABLED (\E r \in Replies, now \in Times : SendOk(r, now)) )

\* C2 witness: a failed Send on a non-empty transcript, error shown.
C2_Witness ==
  /\ Submitted /\ response.kind = "error" /\ status.kind = "error"
  /\ Len(chat_history) = 2 /\ displayed = chat_history

\* C3: a Send that follows the New Topic action builds its prompt from empty
\* history text.
C3_ClearThenEmptyHistory ==
  [][ (trigger = "new_topic" /\ trigger' = "send" /\ request' # <<>>) =>
        get_buffer_string(loaded') = <<>> ]_vars

\* C4: exactly one request per Send with non-empty text, carrying the selected
\* model and the assembled prompt; no request on any other interaction.
C4_OneRequestPerSend ==
  /\ Len(request) = (IF Submitted THEN 1 ELSE 0)
  /\ \A i \in DOMAIN request :
       /\ request[i].model = model
       /\ Contains(request[i].prompt, << "Human: " >> \o user_question)

\* C4 witness: a failed Send made one request, with the second model.
C4_Witness ==
  /\ Submitted /\ response.kind = "error"
  /\ Len(request) = 1 /\ request[1].model = Models[2]

C6_PromptSubstituted ==
  \A i \in DOMAIN request :
    LET prompt == request[i].prompt
        history == get_buffer_string(loaded)
    IN /\ Contains(prompt, history)
       /\ Contains(prompt, << "Human: " >> \o user_question)
       /\ Placeholders(prompt) = Placeholders(history) + Placeholders(user_question)
       /\ Len(prompt) = Len(personas[selected_persona]) - 2
                          + Len(history) + Len(user_question)
       /\ (selected_persona = "Default" /\ loaded = <<>> /\ user_question = << "Hi" >>) =>
            /\ Contains(prompt, << "Human: ", "Hi" >>)
            /\ prompt[Len(prompt)] = "AI:"

\* C6 witness: a prompt built from a history that itself holds the text
\* "{input}", with a different input.
C6_Witness ==
  /\ Submitted /\ request # <<>>
  /\ selected_persona = "Expert"
  /\ Placeholders(get_buffer_string(loaded)) = 1
  /\ user_question = << "Hi" >>

\* C7: New Topic leaves the transcript, the start time and the displayed
\* conversation unchanged; it empties only the memory of the run.
C7_NewTopicFrame ==
  [][ trigger' = "new_topic" =>
        /\ chat_history' = chat_history
        /\ start_time' = start_time
        /\ total_messages' = total_messages
        /\ displayed' = chat_history
        /\ memory'.messages = <<>>
        /\ buffer(memory') = <<>> ]_vars

\* C7 witness: New Topic pressed on a transcript of two turns.
C7_Witness ==
  /\ trigger = "new_topic" /\ status = SuccessBox
  /\ Len(chat_history) = 2 /\ displayed = chat_history
  /\ start_time # None /\ memory.messages = <<>>

\* C8 as stated: the window built right after raising K holds the same turns
\* as the window built with the old K.
C8_GrowingHasNoEffect ==
  [][ memory_length' > memory_length =>
        buffer(memory') = WindowOf(memory_length, chat_history) ]_vars

\* C8 amended: the window built after a change of K is the last min(N, K2)
\* turns; raising K leaves it unchanged only when N <= K1 and otherwise grows
\* it at once; lowering K drops the oldest overflow at once.
C8_WindowFollowsK ==
  [][ memory_length' # memory_length =>
        LET N == Len(chat_history)
            K1 == memory_length
            K2 == memory_length'
            old == WindowOf(K1, chat_history)
            new == buffer(memory')
        IN /\ chat_history' = chat_history
           /\ new = TurnMessages(LastTurns(chat_history, Min(N, K2)))
           /\ (K2 > K1 /\ N <= K1) => new = old
           /\ (K2 > K1 /\ N > K1) => Len(new) > Len(old)
           /\ K2 < K1 => new = SubSeq(old, Len(old) - 2 * Min(N, K2) + 1, Len(old)) ]_vars

\* C8 witness: the slider was moved to K = 3 over a transcript of 3 turns and
\* the window holds all of them.
C8_Witness ==
  /\ trigger = "memory" /\ memory_length = 3
  /\ Len(chat_history) = 3 /\ Len(buffer(memory)) = 6

\* C9: without Clear Chat History the earlier transcript is a prefix of the
\* later one; a successful call appends exactly the turn {submitted text,
\* returned text}; Clear Chat History removes every turn.
C9_AppendOnly ==
  [][ /\ trigger' # "clear" => IsPrefix(chat_history, chat_history')
      /\ response'.kind = "text" =>
           chat_history' = Append(chat_history,
                                  [human |-> user_question, AI |-> response'.text])
      /\ (response'.kind # "text" /\ trigger' # "clear") => chat_history' = chat_history
      /\ trigger' = "clear" => chat_history' = <<>> ]_vars

\* C9 witness: a third turn was appended while K = 1.
C9_Witness ==
  /\ Submitted /\ response.kind = "text"
  /\ Len(chat_history) = 3 /\ memory_length = 1
  /\ chat_history[1].human # chat_history[3].human

\* C10: a non-empty transcript implies start_time is set; it is set by the time
\* a request is made; Clear Chat History resets both together.
C10_StartTimeSet ==
  /\ chat_history # <<>> => start_time \in Times
  /\ request # <<>> => start_time \in Times
  /\ trigger = "clear" => (chat_history = <<>> /\ start_time = None)

\* C10 witness: after a failed first Send start_time is set while the
\* transcript is empty.
C10_Witness ==
  /\ Submitted /\ response.kind = "error"
  /\ chat_history = <<>> /\ start_time # None

====
